---- MODULE Spec2Model ----
(***************************************************************************)
(* EmojiListWidget (chat_helpers/emoji_list_widget.cpp) and the            *)
(* EmojiColorPicker overlay it owns: the sectioned grid's geometry, the    *)
(* selected / pressed / picker-target interaction state, and the events    *)
(* the panel fires.                                                        *)
(*                                                                         *)
(* Coordinates are widget-local pixels of the list.  The place of the      *)
(* pointer relative to the overlay is carried by every pointer event as a  *)
(* "spot": Out (outside the overlay's rect) or Over(v), inside the rect   *)
(* over variant v (-1: over no variant).                                   *)
(***************************************************************************)
EXTENDS Integers, Sequences, FiniteSets, TLC

\* ---------------------------------------------------------------- bounds
\* Number of built-in sections of the model (section 0 is Recent).
kEmojiSectionCount == 2
\* An emoji with variants has variantsCount() coloured variants after the
\* original one (indices 0 .. VariantsCount).
VariantsCount == 1
\* Panel widths the host may give the list.
MaxWidth == 3
\* Height of the band a partial paintEvent() covers.
ViewHeight == 3

\* The clock runs from 1 to MaxTime.
MaxTime == 4
\* Duration classes a repaint request may name: 1 .. DurationClasses.
DurationClasses == 2
\* Offsets are asked for from one pixel above the list to FarBelow pixels
\* below its height.
FarBelow == 3

\* ------------------------------------------------------- program constants
\* clearSelection() parks the tracked pointer at QPoint(-10, -10).
SentinelCoord == -10

\* Style values (styles/style_chat_helpers), scaled to a small pixel grid.
st ==
    [ emojiPanPadding |-> 1, emojiPanHeader |-> 2, roundRadiusSmall |-> 0,
      emojiScrollWidth |-> 1, emojiPadding |-> 0, emojiPanDesiredSize |-> 2,
      lineWidth |-> 0 ]

\* ------------------------------------------------------------------ emoji
\* An emoji is a family (its nonColoredId) and a variant index.
PlainFamily == "grin"
MultiFamily == "hand"
Families == {PlainFamily, MultiFamily}

EmojiOf(family, variant) == [family |-> family, variant |-> variant]

\* EmojiPtr::hasVariants(): true of every member of a family with variants.
hasVariants(emoji) == emoji.family = MultiFamily

nonColoredId(emoji) == emoji.family

\* EmojiPtr::variant(index)
variant(emoji, index) ==
    IF hasVariants(emoji) /\ index >= 0 /\ index <= VariantsCount
    THEN EmojiOf(emoji.family, index)
    ELSE emoji

AllEmoji ==
    {EmojiOf(PlainFamily, 0)} \cup {EmojiOf(MultiFamily, v) : v \in 0..VariantsCount}

\* Ui::Emoji::GetSection(section) for the fixed categories (section >= 1).
GetSection(section) ==
    IF section = 1
    THEN <<EmojiOf(MultiFamily, 0), EmojiOf(PlainFamily, 0)>>
    ELSE <<EmojiOf(PlainFamily, 0)>>

\* Lists the preference store may hold as "recently used".
RecentChoices == {<<>>, <<EmojiOf(PlainFamily, 0)>>}

\* Custom sets the catalog provider may report: id and ordered documents.
SetOf(id, docs) == [id |-> id, docs |-> docs]
Catalogs == { <<SetOf("a", <<"d1">>)>> }

\* Catalogs with several custom sets, a content id in one set or in two.
SharedCatalogs ==
    { <<SetOf("a", <<"d1">>), SetOf("b", <<"d1">>)>>,
      <<SetOf("a", <<"d1">>), SetOf("b", <<"d2">>)>>,
      <<SetOf("a", <<"d1", "d2">>), SetOf("b", <<"d2">>)>> }

\* The catalogs the scrolled panel may be given: the ones above, one whose
\* set fills more than a row at every width, and one with a set that is
\* missing from sets() or has no stickers (no documents).
ViewCatalogs ==
    SharedCatalogs
        \cup { <<SetOf("c", <<"d1", "d2", "d3">>)>>,
               <<SetOf("a", <<>>), SetOf("b", <<"d2">>)>> }

Buttons == {"left", "right"}
\* A pointer's place relative to the overlay's rect.
Out == [inside |-> FALSE, variant |-> -1]
Over(v) == [inside |-> TRUE, variant |-> v]

\* Events fired and collaborator calls made.
NoEmoji == [family |-> "", variant |-> -1]
Event(name, emoji, document) == [ev |-> name, emoji |-> emoji, document |-> document]

\* ------------------------------------------------------------------ state
VARIABLES
    _selected,        \* EmojiListWidget::_selected
    _pressedSel,      \* EmojiListWidget::_pressedSel
    _pickerSel,       \* EmojiListWidget::_pickerSel
    _lastMousePos,    \* EmojiListWidget::_lastMousePos, widget-local <<x, y>>
    _showPickerTimer, \* _showPickerTimer.isActive()
    scrollDisabled,   \* last value given to disableScroll()
    _emoji,           \* _emoji[section]: the loaded built-in items
    _counts,          \* _counts[section]
    _custom,          \* _custom: sequence of [id, list, painted]
    _instances,       \* _instances: content id -> [setId, using]
    _repaints,        \* _repaints: duration class -> [when, ids, from]
    _repaintTimerScheduled, \* the posted scheduling call is in flight
    postedCalls,      \* calls given to Ui::PostponeCall() that have not run yet
    _repaintNext,     \* _repaintNext, 0 when unset
    _repaintTimer,    \* the time _repaintTimer is armed for, 0 when not active
    now,              \* crl::now()
    _width,           \* width() of the list
    emojiVariants,    \* Core settings: family -> stored variant, -1 if none
    picker,           \* the EmojiColorPicker's fields
    aborted,          \* an Expects() precondition failed: the process is gone
    fired,            \* events fired and collaborator calls made by the last handler
    mouseGrabber      \* the widget a held mouse button delivers to: "none", "list", "picker"

vars ==
    << _selected, _pressedSel, _pickerSel, _lastMousePos, _showPickerTimer,
       scrollDisabled, _emoji, _counts, _custom, _instances, _repaints,
       _repaintTimerScheduled, postedCalls, _repaintNext, _repaintTimer, now,
       _width, emojiVariants, picker, aborted, fired, mouseGrabber >>

\* The whole state as one record, threaded through the handlers' statements.
Cur ==
    [ selected |-> _selected, pressedSel |-> _pressedSel, pickerSel |-> _pickerSel,
      lastMousePos |-> _lastMousePos, timer |-> _showPickerTimer,
      scroll |-> scrollDisabled, emoji |-> _emoji, counts |-> _counts,
      custom |-> _custom, instances |-> _instances, repaints |-> _repaints,
      scheduled |-> _repaintTimerScheduled, posted |-> postedCalls,
      repaintNext |-> _repaintNext,
      repaintTimer |-> _repaintTimer, now |-> now, width |-> _width,
      variants |-> emojiVariants, picker |-> picker, aborted |-> FALSE,
      fired |-> <<>> ]

\* The state a handler leaves.  A handler that hit a failed Expects() leaves
\* nothing behind but the abort.
Settle(s) == IF s.aborted THEN [Cur EXCEPT !.aborted = TRUE] ELSE s

Assign(s) ==
    /\ _selected' = s.selected
    /\ _pressedSel' = s.pressedSel
    /\ _pickerSel' = s.pickerSel
    /\ _lastMousePos' = s.lastMousePos
    /\ _showPickerTimer' = s.timer
    /\ scrollDisabled' = s.scroll
    /\ _emoji' = s.emoji
    /\ _counts' = s.counts
    /\ _custom' = s.custom
    /\ _instances' = s.instances
    /\ _repaints' = s.repaints
    /\ _repaintTimerScheduled' = s.scheduled
    /\ postedCalls' = s.posted
    /\ _repaintNext' = s.repaintNext
    /\ _repaintTimer' = s.repaintTimer
    /\ now' = s.now
    /\ _width' = s.width
    /\ emojiVariants' = s.variants
    /\ picker' = s.picker
    /\ aborted' = s.aborted
    /\ fired' = s.fired

\* The handler's result, computed once, becomes the next state.
Becomes(s) == \E result \in {s} : Assign(Settle(result))

Fire(s, event) == [s EXCEPT !.fired = Append(@, event)]

Max(a, b) == IF a >= b THEN a ELSE b

\* --------------------------------------------------------------- geometry
\* countDesiredHeight(): the column count, cell size and left margin that a
\* width gives.
fullWidth(w) == st.roundRadiusSmall + w + st.emojiScrollWidth

columnCount(w) ==
    Max((fullWidth(w) - st.emojiPadding * 2) \div st.emojiPanDesiredSize, 1)

rowsLeft(w) ==
    (fullWidth(w) \div (columnCount(w) * 4 + 2)) - st.roundRadiusSmall

singleWidth(w) ==
    LET left == fullWidth(w) \div (columnCount(w) * 4 + 2)
        right == Max(left, st.emojiScrollWidth)
    IN (fullWidth(w) - left - right) \div columnCount(w)

singleHeight(w) == singleWidth(w) - 4 * st.lineWidth

sectionsCount(s) == kEmojiSectionCount + Len(s.custom)

\* The item count enumerateSections() reads for a section.
SectionItems(s, section) ==
    IF section < kEmojiSectionCount
    THEN s.counts[section]
    ELSE Len(s.custom[section - kEmojiSectionCount + 1].list)

\* enumerateSections(): the SectionInfo of every section, in order.
RECURSIVE EnumerateFrom(_, _, _)
\* enumerateSections() counting only the full rows of a section.
EnumerateFrom_FullRows(s, i, top) ==
    IF i >= sectionsCount(s)
    THEN <<>>
    ELSE LET count == SectionItems(s, i)
             cols == columnCount(s.width)
             rowsCount == count \div cols
             rowsTop == top + (IF i = 0 THEN st.emojiPanPadding ELSE st.emojiPanHeader)
             rowsBottom == rowsTop + rowsCount * singleHeight(s.width)
             info == [ section |-> i, count |-> count, top |-> top,
                       rowsCount |-> rowsCount, rowsTop |-> rowsTop,
                       rowsBottom |-> rowsBottom ]
         IN <<info>> \o EnumerateFrom(s, i + 1, rowsBottom)

EnumerateFrom(s, i, top) ==
    IF i >= sectionsCount(s)
    THEN <<>>
    ELSE LET count == SectionItems(s, i)
             cols == columnCount(s.width)
             rowsCount == (count + cols - 1) \div cols
             rowsTop == top + (IF i = 0 THEN st.emojiPanPadding ELSE st.emojiPanHeader)
             rowsBottom == rowsTop + rowsCount * singleHeight(s.width)
             info == [ section |-> i, count |-> count, top |-> top,
                       rowsCount |-> rowsCount, rowsTop |-> rowsTop,
                       rowsBottom |-> rowsBottom ]
         IN <<info>> \o EnumerateFrom(s, i + 1, rowsBottom)

enumerateSections(s) == EnumerateFrom(s, 0, 0)

\* sectionInfo(section); Expects(section >= 0 && section < sectionsCount()).
sectionInfoValid(s, section) == section >= 0 /\ section < sectionsCount(s)

sectionInfo(s, section) == enumerateSections(s)[section + 1]

\* sectionInfoByOffset() taking the pixel at a section's rowsBottom as the
\* section's own.
sectionInfoByOffset_BottomIncluded(s, yOffset) ==
    LET infos == enumerateSections(s)
        hit == { k \in 1..Len(infos) :
                    yOffset <= infos[k].rowsBottom \/ infos[k].section = sectionsCount(s) - 1 }
        first == CHOOSE k \in hit : \A j \in hit : k <= j
    IN infos[first]

\* sectionInfoByOffset(yOffset): the first section whose rows end below the
\* offset, the last section otherwise.
sectionInfoByOffset(s, yOffset) ==
    LET infos == enumerateSections(s)
        hit == { k \in 1..Len(infos) :
                    yOffset < infos[k].rowsBottom \/ infos[k].section = sectionsCount(s) - 1 }
        first == CHOOSE k \in hit : \A j \in hit : k <= j
    IN infos[first]

\* Height of the list: countDesiredHeight()'s result.
desiredHeight(s) == sectionInfo(s, sectionsCount(s) - 1).rowsBottom + st.emojiPanPadding

\* ------------------------------------------------- linear item indices
\* Layout::PositionToIndex / Layout::IndexToPosition (layout/layout_position):
\* a linear index is the running total of the prior sections' counts plus the
\* offset, computed against the current counts on every call.
RECURSIVE CountBefore(_, _)
CountBefore(s, section) ==
    IF section <= 0
    THEN 0
    ELSE CountBefore(s, section - 1) + SectionItems(s, section - 1)

PositionToIndex(s, section, sel) == CountBefore(s, section) + sel

\* IndexToPosition() counting the index one past a section's last item as
\* that section's.
IndexToPosition_UpToCount(s, index) ==
    LET inside == { i \in 0..(sectionsCount(s) - 1) :
                        /\ CountBefore(s, i) <= index
                        /\ index <= CountBefore(s, i) + SectionItems(s, i) }
    IN IF index < 0
       THEN <<-1, 0>>
       ELSE IF inside = {}
            THEN <<sectionsCount(s), index - CountBefore(s, sectionsCount(s))>>
            ELSE LET i == CHOOSE i \in inside : \A j \in inside : i <= j
                 IN <<i, index - CountBefore(s, i)>>

\* <<section, offset>>; an index past the last item decodes to the section
\* after the last one.
IndexToPosition(s, index) ==
    LET inside == { i \in 0..(sectionsCount(s) - 1) :
                        /\ CountBefore(s, i) <= index
                        /\ index < CountBefore(s, i) + SectionItems(s, i) }
    IN IF index < 0
       THEN <<-1, 0>>
       ELSE IF inside = {}
            THEN <<sectionsCount(s), index - CountBefore(s, sectionsCount(s))>>
            ELSE LET i == CHOOSE i \in inside : TRUE
                 IN <<i, index - CountBefore(s, i)>>

\* section < kEmojiSectionCount && sel < _emoji[section].size()
IsEmojiItem(s, pos) ==
    /\ pos[1] >= 0
    /\ pos[1] < kEmojiSectionCount
    /\ pos[2] < Len(s.emoji[pos[1]])

EmojiAt(s, pos) == s.emoji[pos[1]][pos[2] + 1]

\* section >= kEmojiSectionCount && sel < _custom[section - k].list.size()
IsCustomItem(s, pos) ==
    /\ pos[1] >= kEmojiSectionCount
    /\ pos[1] < sectionsCount(s)
    /\ pos[2] < Len(s.custom[pos[1] - kEmojiSectionCount + 1].list)

CustomAt(s, pos) == s.custom[pos[1] - kEmojiSectionCount + 1].list[pos[2] + 1]

\* emojiRect(section, sel) past its sectionInfo(section) call: the cell of
\* item sel of the section that info describes.
CellRect(s, info, sel) ==
    [ x |-> rowsLeft(s.width) + (sel % columnCount(s.width)) * singleWidth(s.width),
      y |-> info.rowsTop + (sel \div columnCount(s.width)) * singleHeight(s.width),
      w |-> singleWidth(s.width), h |-> singleHeight(s.width) ]

\* emojiRect(section, sel): the cell of an item.
ItemRect(s, section, sel) == CellRect(s, sectionInfo(s, section), sel)

\* emojiRect(section, sel) is otherwise only used to repaint; what it can do to the
\* state is fail sectionInfo()'s Expects().
emojiRect(s, section) ==
    IF sectionInfoValid(s, section) THEN s ELSE [s EXCEPT !.aborted = TRUE]

\* ------------------------------------------------------------ the overlay
PickerInit ==
    [ hidden |-> TRUE, hiding |-> FALSE, animating |-> FALSE, ignoreShow |-> FALSE,
      cacheNull |-> TRUE, selected |-> -1, pressedSel |-> -1, lastMousePos |-> Out,
      variants |-> <<>> ]

Spots == {Out} \cup {Over(v) : v \in -1..VariantsCount}

\* EmojiColorPicker::updateSelected(): the variant under the tracked pointer.
PickerHit(variants, spot) ==
    IF spot.inside /\ spot.variant >= 0 /\ spot.variant < Len(variants)
    THEN spot.variant
    ELSE -1

PickerUpdateSelected(s) ==
    [s EXCEPT !.picker.selected = PickerHit(s.picker.variants, s.picker.lastMousePos)]

\* EmojiColorPicker::clearSelection()
PickerClearSelection(s) ==
    [s EXCEPT !.picker.pressedSel = -1, !.picker.selected = -1,
              !.picker.lastMousePos = Out]

\* if (_cache.isNull()) { _cache = Ui::GrabWidget(this); clearSelection(); }
GrabCache(s) ==
    IF s.picker.cacheNull
    THEN PickerClearSelection([s EXCEPT !.picker.cacheNull = FALSE])
    ELSE s

\* EmojiColorPicker::hideAnimated()
hideAnimated(s) ==
    [GrabCache(s) EXCEPT !.picker.hiding = TRUE, !.picker.animating = TRUE]

\* EmojiColorPicker::showAnimated()
showAnimated(s) ==
    IF s.picker.ignoreShow \/ (~s.picker.hidden /\ ~s.picker.hiding)
    THEN s
    ELSE [GrabCache([s EXCEPT !.picker.hiding = FALSE])
            EXCEPT !.picker.hidden = FALSE, !.picker.animating = TRUE]

\* EmojiColorPicker::showEmoji(emoji), with updateSize()
showEmoji(s, emoji) ==
    IF ~hasVariants(emoji)
    THEN s
    ELSE showAnimated(
             [PickerUpdateSelected(
                  [s EXCEPT !.picker.ignoreShow = FALSE,
                            !.picker.variants =
                                [i \in 1..(VariantsCount + 1) |-> variant(emoji, i - 1)]])
                EXCEPT !.picker.cacheNull = TRUE])

\* EmojiColorPicker::handleMouseMove(globalPos)
handleMouseMove(s, spot) ==
    PickerUpdateSelected([s EXCEPT !.picker.lastMousePos = spot])

\* ---------------------------------------------------------------- the list
\* setSelected()'s updateSelected lambda: repaint the selected item's rect.
RepaintSelected(s) ==
    IF s.selected < 0 THEN s ELSE emojiRect(s, IndexToPosition(s, s.selected)[1])

\* The end of setSelected(): the overlay follows the new selection.
FollowSelected(s) ==
    IF s.selected >= 0 /\ ~s.picker.hidden
    THEN IF s.selected # s.pickerSel THEN hideAnimated(s) ELSE showAnimated(s)
    ELSE s

\* EmojiListWidget::setSelected(newSelected)
setSelected(s, newSelected) ==
    IF s.selected = newSelected
    THEN s
    ELSE FollowSelected(
             RepaintSelected([RepaintSelected(s) EXCEPT !.selected = newSelected]))

\* updateSelected() without the check against the section's count.
HitInSection_NoCount(s, p, info, sx) ==
    IF /\ p[2] >= info.rowsTop
       /\ p[2] < info.rowsBottom
       /\ sx >= 0
       /\ sx < columnCount(s.width) * singleWidth(s.width)
    THEN ((p[2] - info.rowsTop) \div singleHeight(s.width)) * columnCount(s.width)
             + (sx \div singleWidth(s.width))
             + PositionToIndex(s, info.section, 0)
    ELSE -1

\* The index updateSelected() computes for point p, info being
\* sectionInfoByOffset(p.y()).
HitInSection(s, p, info, sx) ==
    IF /\ p[2] >= info.rowsTop
       /\ p[2] < info.rowsBottom
       /\ sx >= 0
       /\ sx < columnCount(s.width) * singleWidth(s.width)
    THEN IF ((p[2] - info.rowsTop) \div singleHeight(s.width)) * columnCount(s.width)
               + (sx \div singleWidth(s.width)) >= info.count
         THEN -1
         ELSE ((p[2] - info.rowsTop) \div singleHeight(s.width)) * columnCount(s.width)
                  + (sx \div singleWidth(s.width))
                  + PositionToIndex(s, info.section, 0)
    ELSE -1

HitIndex(s, p) ==
    HitInSection(s, p, sectionInfoByOffset(s, p[2]), p[1] - rowsLeft(s.width))

\* EmojiListWidget::updateSelected()
updateSelected(s) ==
    IF s.pressedSel >= 0 \/ s.pickerSel >= 0
    THEN s
    ELSE setSelected(s, HitIndex(s, s.lastMousePos))

\* pickerHidden() without disableScroll(false).
pickerHidden_ScrollStays(s, cursor) ==
    updateSelected([s EXCEPT !.pickerSel = -1, !.lastMousePos = cursor])

\* EmojiListWidget::pickerHidden(); cursor is QCursor::pos().
pickerHidden(s, cursor) ==
    updateSelected([s EXCEPT !.pickerSel = -1, !.scroll = FALSE,
                             !.lastMousePos = cursor])

\* selectEmoji() forgetting the recently-used notification.
selectEmoji_NoRecent(s, emoji) == Fire(s, Event("chosen", emoji, ""))

\* EmojiListWidget::selectEmoji(emoji)
selectEmoji(s, emoji) ==
    Fire(Fire(s, Event("incrementRecentEmoji", emoji, "")), Event("chosen", emoji, ""))

\* selectCustom() taking the recent-emoji path as well.
selectCustom_AlsoRecent(s, document) ==
    Fire(Fire(s, Event("incrementRecentEmoji", NoEmoji, document)),
         Event("customChosen", NoEmoji, document))

\* EmojiListWidget::selectCustom(document)
selectCustom(s, document) == Fire(s, Event("customChosen", NoEmoji, document))

\* Core settings' saveEmojiVariant(emoji), called for an emoji with variants.
saveEmojiVariant(s, emoji) ==
    IF hasVariants(emoji)
    THEN Fire([s EXCEPT !.variants[nonColoredId(emoji)] = emoji.variant],
              Event("saveEmojiVariant", emoji, ""))
    ELSE s

\* colorChosen(): _emoji[section][sel] = emoji for the overlay's target.
ReplaceTarget(s, emoji, pos) ==
    IF s.pickerSel >= 0 /\ pos[1] >= 0 /\ pos[1] < kEmojiSectionCount
    THEN IF pos[2] < Len(s.emoji[pos[1]])
         THEN emojiRect([s EXCEPT !.emoji[pos[1]][pos[2] + 1] = emoji], pos[1])
         ELSE [s EXCEPT !.aborted = TRUE]
    ELSE s

ReplaceAtPicker(s, emoji) == ReplaceTarget(s, emoji, IndexToPosition(s, s.pickerSel))

\* colorChosen() not storing the chosen variant.
colorChosen_NoSave(s, emoji) ==
    hideAnimated(selectEmoji(ReplaceAtPicker(s, emoji), emoji))

\* EmojiListWidget::colorChosen(emoji)
colorChosen(s, emoji) ==
    hideAnimated(selectEmoji(ReplaceAtPicker(saveEmojiVariant(s, emoji), emoji), emoji))

\* handleMouseRelease(): fire chosen() for the variant under the pointer.
ChooseVariant(s, pressed) ==
    IF s.picker.selected >= 0 /\ (pressed < 0 \/ s.picker.selected = pressed)
    THEN colorChosen(s, s.picker.variants[s.picker.selected + 1])
    ELSE s

\* EmojiColorPicker::handleMouseRelease(globalPos); the chosen() event runs
\* the list's colorChosen() before the overlay goes on.
handleMouseRelease(s, spot) ==
    hideAnimated(
        [ChooseVariant(
             PickerUpdateSelected(
                 [s EXCEPT !.picker.lastMousePos = spot, !.picker.pressedSel = -1]),
             s.picker.pressedSel)
           EXCEPT !.picker.ignoreShow = TRUE])

\* EmojiListWidget::checkPickerHide()
checkPickerHideApplies(s) == ~s.picker.hidden /\ s.pickerSel >= 0

checkPickerHide(s) ==
    IF checkPickerHideApplies(s)
    THEN updateSelected([hideAnimated(s) EXCEPT !.pickerSel = -1])
    ELSE s

\* showPicker() once the target is known to be pos.
ShowPickerAt(s, pos) ==
    IF IsEmojiItem(s, pos) /\ hasVariants(EmojiAt(s, pos))
    THEN [emojiRect(showEmoji(s, EmojiAt(s, pos)), pos[1]) EXCEPT !.scroll = TRUE]
    ELSE s

\* EmojiListWidget::showPicker()
showPicker(s) ==
    IF s.pickerSel < 0 THEN s ELSE ShowPickerAt(s, IndexToPosition(s, s.pickerSel))

\* mousePressEvent() arming the timer whether or not a variant is stored.
PressItem_AlwaysDelay(s, at) ==
    IF s.selected >= 0 /\ IsEmojiItem(s, at) /\ hasVariants(EmojiAt(s, at))
    THEN [s EXCEPT !.pickerSel = s.selected, !.timer = TRUE]
    ELSE s

\* mousePressEvent(): a press on an item with variants targets the overlay.
PressItem(s, at) ==
    IF s.selected >= 0 /\ IsEmojiItem(s, at) /\ hasVariants(EmojiAt(s, at))
    THEN IF s.variants[nonColoredId(EmojiAt(s, at))] < 0
         THEN showPicker([s EXCEPT !.pickerSel = s.selected])
         ELSE [s EXCEPT !.pickerSel = s.selected, !.timer = TRUE]
    ELSE s

PressLeft(s) ==
    PressItem([s EXCEPT !.pressedSel = s.selected], IndexToPosition(s, s.selected))

PressChecked(s, button) ==
    IF checkPickerHideApplies(s) \/ button # "left"
    THEN checkPickerHide(s)
    ELSE PressLeft(s)

\* EmojiListWidget::mousePressEvent(e)
mousePressEvent(s, pos, button) ==
    PressChecked(updateSelected([s EXCEPT !.lastMousePos = <<pos.x, pos.y>>]), button)

\* mouseReleaseEvent(): commit the item released on.
ReleaseSelect(s, pressed, at) ==
    IF s.selected < 0 \/ s.selected # pressed
    THEN s
    ELSE IF IsEmojiItem(s, at)
         THEN IF hasVariants(EmojiAt(s, at)) /\ ~s.picker.hidden
              THEN s
              ELSE selectEmoji(s, EmojiAt(s, at))
         ELSE IF IsCustomItem(s, at)
              THEN selectCustom(s, CustomAt(s, at))
              ELSE s

ReleaseAt(s, pressed) == ReleaseSelect(s, pressed, IndexToPosition(s, s.selected))

\* mouseReleaseEvent(): if (_showPickerTimer.isActive()) { ... }
CancelShowPicker(s) ==
    IF s.timer
    THEN [s EXCEPT !.timer = FALSE, !.pickerSel = -1, !.picker.hidden = TRUE]
    ELSE s

\* The part of mouseReleaseEvent() after the overlay had its say.
ReleaseCommit(s, pressed) == ReleaseAt(CancelShowPicker(updateSelected(s)), pressed)

\* mouseReleaseEvent() without the branch that closes the overlay.
ReleaseOutside_KeepOpen(s, pressed, target) == ReleaseCommit(s, pressed)

\* mouseReleaseEvent(): a release outside the shown overlay closes it when
\* its target has a stored variant.
ReleaseOutside(s, pressed, target) ==
    IF /\ ~s.picker.hidden
       /\ s.pickerSel >= 0
       /\ IsEmojiItem(s, target)
       /\ hasVariants(EmojiAt(s, target))
       /\ s.variants[nonColoredId(EmojiAt(s, target))] >= 0
    THEN ReleaseCommit([hideAnimated(s) EXCEPT !.pickerSel = -1], pressed)
    ELSE ReleaseCommit(s, pressed)

ReleaseStart(s, pos, pressed) ==
    IF ~s.picker.hidden /\ pos.spot.inside
    THEN handleMouseRelease(s, pos.spot)
    ELSE ReleaseOutside(s, pressed, IndexToPosition(s, s.pickerSel))

\* EmojiListWidget::mouseReleaseEvent(e)
mouseReleaseEvent(s, pos) ==
    ReleaseStart([s EXCEPT !.pressedSel = -1, !.lastMousePos = <<pos.x, pos.y>>],
                 pos, s.pressedSel)

\* EmojiListWidget::mouseMoveEvent(e)
MoveTracked(s, pos) ==
    IF ~s.picker.hidden
    THEN IF pos.spot.inside
         THEN handleMouseMove(s, pos.spot)
         ELSE updateSelected(PickerClearSelection(s))
    ELSE updateSelected(s)

mouseMoveEvent(s, pos) == MoveTracked([s EXCEPT !.lastMousePos = <<pos.x, pos.y>>], pos)

\* clearSelection() clearing the overlay's selection as well.
clearSelection_WithOverlay(s) ==
    PickerClearSelection(
        setSelected([s EXCEPT !.lastMousePos = <<SentinelCoord, SentinelCoord>>,
                              !.pressedSel = -1],
                    -1))

\* EmojiListWidget::clearSelection()
clearSelection(s) ==
    setSelected([s EXCEPT !.lastMousePos = <<SentinelCoord, SentinelCoord>>,
                          !.pressedSel = -1],
                -1)

\* EmojiListWidget::enterFromChildEvent(); cursor is QCursor::pos().
enterFromChildEvent(s, cursor) == updateSelected([s EXCEPT !.lastMousePos = cursor])

\* EmojiColorPicker::hideFast(); hidden() runs the list's pickerHidden().
hideFast(s, cursor) ==
    pickerHidden([PickerClearSelection(s) EXCEPT !.picker.animating = FALSE,
                                                 !.picker.cacheNull = TRUE,
                                                 !.picker.hidden = TRUE],
                 cursor)

\* EmojiListWidget::processHideFinished()
processHideFinished(s, cursor) ==
    IF ~s.picker.hidden
    THEN clearSelection([hideFast(s, cursor) EXCEPT !.pickerSel = -1])
    ELSE clearSelection(s)

\* animationCallback() once the animation is over.
AnimationOver(s, cursor, spot) ==
    IF s.picker.hiding
    THEN pickerHidden([s EXCEPT !.picker.hidden = TRUE], cursor)
    ELSE PickerUpdateSelected([s EXCEPT !.picker.lastMousePos = spot])

\* EmojiColorPicker::animationCallback() when the opacity animation has ended;
\* cursor and spot are QCursor::pos() as the list and the overlay see it.
animationCallback(s, cursor, spot) ==
    AnimationOver([s EXCEPT !.picker.animating = FALSE, !.picker.cacheNull = TRUE],
                  cursor, spot)

PressVariant(s) == [s EXCEPT !.picker.pressedSel = s.picker.selected]

\* EmojiColorPicker::mousePressEvent(e)
pickerMousePressEvent(s, spot, button) ==
    IF button # "left"
    THEN s
    ELSE PressVariant(PickerUpdateSelected([s EXCEPT !.picker.lastMousePos = spot]))

\* ----------------------------------------------------- catalog and paint
\* The entry of the old custom list refreshCustom() finds for a set id.
FindOld(old, setId) ==
    IF { k \in 1..Len(old) : old[k].id = setId } = {}
    THEN 0
    ELSE CHOOSE k \in 1..Len(old) :
             /\ old[k].id = setId
             /\ \A j \in 1..(k - 1) : old[j].id # setId

\* The empty registry and the empty bucket map.
NoInstances == [id \in {} |-> [setId |-> "", using |-> FALSE]]
NoRepaints == [duration \in {} |-> [when |-> 0, ids |-> {}, from |-> {}]]

\* A set whose state base::take() has moved out of the old list.
TakenSet == [id |-> "", list |-> <<>>, painted |-> FALSE]

\* refreshCustom(): a set rebuilt from the provider's documents; every
\* document gets its instance from the registry, created on first use.
RebuiltSet(set) == [id |-> set.id, list |-> set.docs, painted |-> FALSE]

DocumentsOf(set) == {set.docs[k] : k \in 1..Len(set.docs)}

\* refreshCustom() making a new instance for every document of a rebuilt
\* set, in place of the one the registry holds.
WithInstances_Replaced(registry, set) ==
    [id \in DOMAIN registry \cup DocumentsOf(set) |->
        IF id \in DocumentsOf(set)
        THEN [setId |-> set.id, using |-> FALSE]
        ELSE registry[id]]

\* _instances.emplace() for the documents of a set that have no instance
\* yet; the callbacks of a new instance capture the set's id.
WithInstances(registry, set) ==
    [id \in DOMAIN registry \cup DocumentsOf(set) |->
        IF id \in DOMAIN registry
        THEN registry[id]
        ELSE [setId |-> set.id, using |-> FALSE]]

\* EmojiListWidget::refreshCustom(); catalog is emojiSetsOrder() resolved
\* against sets(): the ordered [id, docs] the provider holds.
RECURSIVE RefreshFrom(_, _, _, _)
\* refreshCustom() carrying a set over whenever its id is found in the old
\* list.
RefreshSet_FoundById(s, old, catalog, n, set, i) ==
    IF set.docs = <<>>
    THEN RefreshFrom(s, old, catalog, n + 1)
    ELSE IF i # 0
         THEN RefreshFrom([s EXCEPT !.custom = Append(@, old[i])],
                          [old EXCEPT ![i] = TakenSet], catalog, n + 1)
         ELSE RefreshFrom([s EXCEPT !.custom = Append(@, RebuiltSet(set)),
                                    !.instances = WithInstances(@, set)],
                          old, catalog, n + 1)

RefreshSet(s, old, catalog, n, set, i) ==
    IF set.docs = <<>>
    THEN RefreshFrom(s, old, catalog, n + 1)
    ELSE IF i # 0 /\ old[i].list = set.docs
         THEN RefreshFrom([s EXCEPT !.custom = Append(@, old[i])],
                          [old EXCEPT ![i] = TakenSet], catalog, n + 1)
         ELSE RefreshFrom([s EXCEPT !.custom = Append(@, RebuiltSet(set)),
                                    !.instances = WithInstances(@, set)],
                          old, catalog, n + 1)

RefreshFrom(s, old, catalog, n) ==
    IF n > Len(catalog)
    THEN s
    ELSE RefreshSet(s, old, catalog, n, catalog[n], FindOld(old, catalog[n].id))

refreshCustom(s, catalog) == RefreshFrom([s EXCEPT !.custom = <<>>], s.custom, catalog, 1)

\* resizeToWidth(newWidth): countDesiredHeight() and the overlay's
\* setSingleSize(), which recomputes its hover index.
resizeToWidth(s, newWidth) == PickerUpdateSelected([s EXCEPT !.width = newWidth])

ResizeSame(s) == resizeToWidth(s, s.width)

\* EmojiListWidget::refreshRecent(); recent is settings().recentEmojiSection().
refreshRecent(s, recent, catalog) ==
    ResizeSame(
        refreshCustom([clearSelection(s) EXCEPT !.emoji[0] = recent,
                                                !.counts[0] = Len(recent)],
                      catalog))

\* The handler of stickers().updated()
stickersUpdated(s, catalog) == ResizeSame(refreshCustom(s, catalog))

\* ensureLoaded(): the stored variant replaces an item that has one.
StoredVariant(s, emoji) ==
    IF hasVariants(emoji) /\ s.variants[nonColoredId(emoji)] >= 0
    THEN variant(emoji, s.variants[nonColoredId(emoji)])
    ELSE emoji

LoadedSection(s, section, recent) ==
    IF section = 0
    THEN recent
    ELSE [k \in 1..Len(GetSection(section)) |-> StoredVariant(s, GetSection(section)[k])]

\* EmojiListWidget::ensureLoaded(section)
ensureLoaded(s, section, recent) ==
    IF section >= kEmojiSectionCount \/ s.emoji[section] # <<>>
    THEN s
    ELSE [s EXCEPT !.emoji[section] = LoadedSection(s, section, recent),
                   !.counts[section] = Len(LoadedSection(s, section, recent))]

Clamp(v, lowest, highest) == IF v < lowest THEN lowest ELSE IF v > highest THEN highest ELSE v

floorclamp(value, step, lowest, highest) == Clamp(value \div step, lowest, highest)

ceilclamp(value, step, lowest, highest) ==
    Clamp((value + step - 1) \div step, lowest, highest)

\* paintEvent(): whether the rows of r in a section hold an item to draw.
DrawsItem(s, info, r) ==
    /\ floorclamp(r.top - info.rowsTop, singleHeight(s.width), 0, info.rowsCount)
         < ceilclamp(r.top + r.height - info.rowsTop, singleHeight(s.width), 0, info.rowsCount)
    /\ floorclamp(r.top - info.rowsTop, singleHeight(s.width), 0, info.rowsCount)
         * columnCount(s.width) < info.count

\* paintEvent(): the content ids of the items of a custom section that the
\* rows of r hold.
DrawnDocuments(s, info, r) ==
    { s.custom[info.section - kEmojiSectionCount + 1].list[index + 1] :
        index \in { i \in 0..(info.count - 1) :
            /\ i \div columnCount(s.width)
                  >= floorclamp(r.top - info.rowsTop, singleHeight(s.width), 0, info.rowsCount)
            /\ i \div columnCount(s.width)
                  < ceilclamp(r.top + r.height - info.rowsTop, singleHeight(s.width),
                              0, info.rowsCount) } }

\* Ui::CustomEmoji::Object::paint() / unload(): the instance's decoded
\* state is in use from a paint until an unload.
UseInstances(registry, ids, using) ==
    [id \in DOMAIN registry |->
        IF id \in ids THEN [registry[id] EXCEPT !.using = using] ELSE registry[id]]

\* drawCustom(): _custom[set].painted = true, and the item's object paints.
drawCustom(s, info, r) ==
    IF info.section >= kEmojiSectionCount /\ DrawsItem(s, info, r)
    THEN [s EXCEPT !.custom[info.section - kEmojiSectionCount + 1].painted = TRUE,
                   !.instances = UseInstances(@, DrawnDocuments(s, info, r), TRUE)]
    ELSE s

\* EmojiListWidget::paintEvent(e) for a full-width rect r = [top, height]: the
\* sections it loads and the custom sets it marks painted.
RECURSIVE PaintFrom(_, _, _, _, _)
PaintSection(s, infos, n, r, recent, info) ==
    IF r.top >= info.rowsBottom
    THEN PaintFrom(s, infos, n + 1, r, recent)
    ELSE IF r.top + r.height <= info.top
         THEN s
         ELSE IF r.top + r.height > info.rowsTop
              THEN PaintFrom(drawCustom(ensureLoaded(s, info.section, recent), info, r),
                             infos, n + 1, r, recent)
              ELSE PaintFrom(s, infos, n + 1, r, recent)

PaintFrom(s, infos, n, r, recent) ==
    IF n > Len(infos) THEN s ELSE PaintSection(s, infos, n, r, recent, infos[n])

paintEvent(s, r, recent) == PaintFrom(s, enumerateSections(s), 1, r, recent)

\* -------------------------------------------------- the repaint coalescer
\* auto &repaint = _repaints[request.duration]: the bucket of a duration
\* class, created empty when the class has none.
BucketOf(repaints, duration) ==
    IF duration \in DOMAIN repaints
    THEN repaints[duration]
    ELSE [when |-> 0, ids |-> {}, from |-> {}]

\* repaintLater() letting the last request set the deadline.
Requested_LastWins(bucket, setId, instance, request) ==
    [ when |-> request.when,
      ids |-> bucket.ids \cup {setId},
      from |-> bucket.from \cup {instance} ]

\* repaintLater() keeping only the id of the last request.
Requested_LastIdOnly(bucket, setId, instance, request) ==
    [ when |-> IF bucket.when < request.when THEN request.when ELSE bucket.when,
      ids |-> {setId},
      from |-> bucket.from \cup {instance} ]

\* repaintLater(): the bucket after the request.  from collects the
\* instances whose requests the bucket holds; the code keeps only ids.
Requested(bucket, setId, instance, request) ==
    [ when |-> IF bucket.when < request.when THEN request.when ELSE bucket.when,
      ids |-> bucket.ids \cup {setId},
      from |-> bucket.from \cup {instance} ]

\* scheduleRepaintTimer() posting a call whether or not one is in flight.
scheduleRepaintTimer_PostsAgain(s) ==
    [s EXCEPT !.scheduled = TRUE, !.posted = @ + 1]

\* EmojiListWidget::scheduleRepaintTimer(): post the scheduling call once.
scheduleRepaintTimer(s) ==
    IF s.scheduled THEN s ELSE [s EXCEPT !.scheduled = TRUE, !.posted = @ + 1]

\* EmojiListWidget::repaintLater(setId, request), called by instance.
repaintLater(s, setId, instance, request) ==
    IF DOMAIN s.instances = {}
    THEN s
    ELSE scheduleRepaintTimer(
             [s EXCEPT !.repaints =
                 [duration \in DOMAIN @ \cup {request.duration} |->
                     IF duration = request.duration
                     THEN Requested(BucketOf(@, duration), setId, instance, request)
                     ELSE @[duration]]])

\* The repaintDelayed callback refreshCustom() gives a new instance.
repaintDelayed(s, instance, request) ==
    repaintLater(s, s.instances[instance].setId, instance, request)

\* repaintCustom(checkId): update() for every custom section whose set id
\* passes the check, in order.
Updates(s, infos, ids) ==
    SelectSeq([n \in 1..Len(infos) |->
                  [ev |-> "update", section |-> infos[n].section,
                   top |-> infos[n].rowsTop,
                   height |-> infos[n].rowsBottom - infos[n].rowsTop]],
              LAMBDA e :
                  /\ e.section >= kEmojiSectionCount
                  /\ s.custom[e.section - kEmojiSectionCount + 1].id \in ids)

repaintCustom(s, ids) == [s EXCEPT !.fired = @ \o Updates(s, enumerateSections(s), ids)]

\* invokeRepaints() taking every bucket as due.
Due_Everything(s) == DOMAIN s.repaints

\* invokeRepaints(): the duration classes whose bucket is due.
Due(s) == { duration \in DOMAIN s.repaints : s.repaints[duration].when <= s.now }

\* invokeRepaints() without the scheduleRepaintTimer() call that ends it.
invokeRepaints_NoReschedule(s) ==
    repaintCustom(
        [s EXCEPT !.repaintNext = 0,
                  !.repaints = [duration \in DOMAIN @ \ Due(s) |-> @[duration]]],
        UNION { s.repaints[duration].ids : duration \in Due(s) })

\* EmojiListWidget::invokeRepaints()
invokeRepaints(s) ==
    scheduleRepaintTimer(
        repaintCustom(
            [s EXCEPT !.repaintNext = 0,
                      !.repaints = [duration \in DOMAIN @ \ Due(s) |-> @[duration]]],
            UNION { s.repaints[duration].ids : duration \in Due(s) }))

\* The scheduling call's next: the least bucket deadline, 0 with no bucket.
NextWhen(repaints) ==
    IF DOMAIN repaints = {}
    THEN 0
    ELSE CHOOSE when \in { repaints[duration].when : duration \in DOMAIN repaints } :
             \A duration \in DOMAIN repaints : when <= repaints[duration].when

\* The call scheduleRepaintTimer() posts, with _repaintTimerScheduled
\* already reset and next computed.
ScheduleFor(s, next) ==
    IF next # 0 /\ (s.repaintNext = 0 \/ s.repaintNext > next)
    THEN IF s.now >= next
         THEN invokeRepaints([s EXCEPT !.repaintNext = 0, !.repaintTimer = 0])
         ELSE [s EXCEPT !.repaintNext = next, !.repaintTimer = next]
    ELSE s

postponedCall(s) ==
    ScheduleFor([s EXCEPT !.scheduled = FALSE, !.posted = @ - 1], NextWhen(s.repaints))

\* _repaintTimer([=] { invokeRepaints(); }) fires.
repaintTimeout(s) == invokeRepaints([s EXCEPT !.repaintTimer = 0])

\* ------------------------------------------------------ the virtualizer
\* unloadNotSeenCustom(): object.unload() for every item of a set, in order.
RECURSIVE UnloadItems(_, _, _, _)
UnloadItems(s, section, list, k) ==
    IF k > Len(list)
    THEN s
    ELSE UnloadItems(
             Fire([s EXCEPT !.instances = UseInstances(@, {list[k]}, FALSE)],
                  [ev |-> "unload", section |-> section, index |-> k - 1,
                   document |-> list[k]]),
             section, list, k + 1)

\* unloadNotSeenCustom() taking only the sections below the range as out
\* of it.
NotSeen_BelowOnly(s, info, visibleTop, visibleBottom) ==
    /\ info.section >= kEmojiSectionCount
    /\ info.rowsTop >= visibleBottom
    /\ s.custom[info.section - kEmojiSectionCount + 1].painted

\* unloadNotSeenCustom() not asking whether the section is painted.
NotSeen_PaintedOrNot(s, info, visibleTop, visibleBottom) ==
    /\ info.section >= kEmojiSectionCount
    /\ ~(info.rowsBottom > visibleTop /\ info.rowsTop < visibleBottom)

\* unloadNotSeenCustom(): a painted custom section out of the visible range.
NotSeen(s, info, visibleTop, visibleBottom) ==
    /\ info.section >= kEmojiSectionCount
    /\ ~(info.rowsBottom > visibleTop /\ info.rowsTop < visibleBottom)
    /\ s.custom[info.section - kEmojiSectionCount + 1].painted

RECURSIVE UnloadFrom(_, _, _, _, _)
UnloadFrom(s, infos, n, visibleTop, visibleBottom) ==
    IF n > Len(infos)
    THEN s
    ELSE IF NotSeen(s, infos[n], visibleTop, visibleBottom)
         THEN UnloadFrom(
                  UnloadItems(
                      [s EXCEPT !.custom[infos[n].section - kEmojiSectionCount + 1].painted
                                    = FALSE],
                      infos[n].section,
                      s.custom[infos[n].section - kEmojiSectionCount + 1].list, 1),
                  infos, n + 1, visibleTop, visibleBottom)
         ELSE UnloadFrom(s, infos, n + 1, visibleTop, visibleBottom)

\* EmojiListWidget::unloadNotSeenCustom(visibleTop, visibleBottom)
unloadNotSeenCustom(s, visibleTop, visibleBottom) ==
    UnloadFrom(s, enumerateSections(s), 1, visibleTop, visibleBottom)

\* EmojiListWidget::visibleTopBottomUpdated(visibleTop, visibleBottom)
visibleTopBottomUpdated(s, visibleTop, visibleBottom) ==
    unloadNotSeenCustom(s, visibleTop, visibleBottom)

\* ------------------------------------------------------- initial state
\* The state the constructor leaves.
Constructed(recent, width, stored) ==
    [ selected |-> -1, pressedSel |-> -1, pickerSel |-> -1, lastMousePos |-> <<0, 0>>,
      timer |-> FALSE, scroll |-> FALSE,
      emoji |-> [section \in 0..(kEmojiSectionCount - 1) |-> <<>>],
      counts |-> [section \in 0..(kEmojiSectionCount - 1) |->
                     IF section = 0 THEN Len(recent) ELSE Len(GetSection(section))],
      custom |-> <<>>, instances |-> NoInstances, repaints |-> NoRepaints,
      scheduled |-> FALSE, posted |-> 0, repaintNext |-> 0, repaintTimer |-> 0,
      now |-> 1,
      width |-> width,
      variants |-> [f \in Families |-> IF f = MultiFamily THEN stored ELSE -1],
      picker |-> PickerInit, aborted |-> FALSE, fired |-> <<>> ]

WholeRect(s) == [top |-> 0, height |-> desiredHeight(s)]

\* The panel as the host first shows it: constructed, given the catalog
\* and a width, and either painted once in full or not painted yet.
Shown(recent, catalog, width, stored, painted) ==
    IF painted
    THEN paintEvent(stickersUpdated(Constructed(recent, width, stored), catalog),
                    WholeRect(stickersUpdated(Constructed(recent, width, stored), catalog)),
                    recent)
    ELSE stickersUpdated(Constructed(recent, width, stored), catalog)

\* The variables hold the state s.
Starts(s) ==
    /\ _selected = s.selected
    /\ _pressedSel = s.pressedSel
    /\ _pickerSel = s.pickerSel
    /\ _lastMousePos = s.lastMousePos
    /\ _showPickerTimer = s.timer
    /\ scrollDisabled = s.scroll
    /\ _emoji = s.emoji
    /\ _counts = s.counts
    /\ _custom = s.custom
    /\ _instances = s.instances
    /\ _repaints = s.repaints
    /\ _repaintTimerScheduled = s.scheduled
    /\ postedCalls = s.posted
    /\ _repaintNext = s.repaintNext
    /\ _repaintTimer = s.repaintTimer
    /\ now = s.now
    /\ _width = s.width
    /\ emojiVariants = s.variants
    /\ picker = s.picker
    /\ aborted = s.aborted
    /\ fired = s.fired

\* The panel at its widest, shown and painted, one emoji recently used.
Init ==
    /\ mouseGrabber = "none"
    /\ \E catalog \in Catalogs, stored \in -1..VariantsCount :
          Starts(Shown(<<EmojiOf(PlainFamily, 0)>>, catalog, MaxWidth, stored, TRUE))

\* ------------------------------------------------------------- the events
\* Widget-local points a pointer event may carry: the top left pixel of
\* every item's cell, and the list's top left pixel (over no item).
CellOrigins(info) ==
    { <<ItemRect(Cur, info.section, i).x, ItemRect(Cur, info.section, i).y>> :
          i \in 0..(info.count - 1) }

Points ==
    UNION { CellOrigins(enumerateSections(Cur)[k]) : k \in 1..sectionsCount(Cur) }
        \cup {<<0, 0>>}

\* Where the pointer may be relative to the overlay: anywhere while it is
\* shown, outside it while it is hidden.
SpotsNow == IF picker.hidden THEN {Out} ELSE Spots

PointerAt(p, spot) == [x |-> p[1], y |-> p[2], spot |-> spot]

\* A pressed button delivers the moves and the release to the widget that got
\* the press, wherever the pointer is; a hidden widget holds no button.
Grab(widget) ==
    mouseGrabber' = IF widget = "picker" /\ picker'.hidden THEN "none" ELSE widget

\* A press the list receives: no button held, the pointer not over the overlay.
MousePress ==
    /\ ~aborted
    /\ mouseGrabber = "none"
    /\ \E p \in Points, button \in Buttons :
          Becomes(mousePressEvent(Cur, PointerAt(p, Out), button))
    /\ Grab("list")

\* The release of the button pressed on the list.
MouseRelease ==
    /\ ~aborted
    /\ mouseGrabber = "list"
    /\ \E p \in Points, spot \in SpotsNow :
          Becomes(mouseReleaseEvent(Cur, PointerAt(p, spot)))
    /\ Grab("none")

\* A move the list receives: over the list itself, or anywhere while it
\* holds the button.
MouseMove ==
    /\ ~aborted
    /\ mouseGrabber # "picker"
    /\ \E p \in Points, spot \in (IF mouseGrabber = "list" THEN SpotsNow ELSE {Out}) :
          Becomes(mouseMoveEvent(Cur, PointerAt(p, spot)))
    /\ Grab(mouseGrabber)

\* leaveEventHook() and leaveToChildEvent()
Leave ==
    /\ ~aborted
    /\ Becomes(clearSelection(Cur))
    /\ Grab(mouseGrabber)

EnterFromChild ==
    /\ ~aborted
    /\ \E p \in Points : Becomes(enterFromChildEvent(Cur, p))
    /\ Grab(mouseGrabber)

\* _showPickerTimer fires.
ShowPickerTimeout ==
    /\ ~aborted
    /\ _showPickerTimer
    /\ Becomes(showPicker([Cur EXCEPT !.timer = FALSE]))
    /\ Grab(mouseGrabber)

\* The overlay's opacity animation ends.
AnimationEnd ==
    /\ ~aborted
    /\ picker.animating
    /\ \E p \in (IF picker.hiding THEN Points ELSE {<<0, 0>>}),
          spot \in (IF picker.hiding THEN {Out} ELSE Spots) :
          Becomes(animationCallback(Cur, p, spot))
    /\ Grab(mouseGrabber)

\* The panel has been hidden.
ProcessHideFinished ==
    /\ ~aborted
    /\ \E p \in (IF picker.hidden THEN {<<0, 0>>} ELSE Points) :
          Becomes(processHideFinished(Cur, p))
    /\ Grab("none")

\* Mouse events the overlay receives itself: a press on it while it is shown,
\* then the moves and the release of that button, and moves over it while no
\* button is held.
PickerMousePress ==
    /\ ~aborted
    /\ mouseGrabber = "none"
    /\ ~picker.hidden
    /\ \E spot \in Spots \ {Out}, button \in Buttons :
          Becomes(pickerMousePressEvent(Cur, spot, button))
    /\ Grab("picker")

PickerMouseRelease ==
    /\ ~aborted
    /\ mouseGrabber = "picker"
    /\ \E spot \in Spots : Becomes(handleMouseRelease(Cur, spot))
    /\ Grab("none")

PickerMouseMove ==
    /\ ~aborted
    /\ mouseGrabber # "list"
    /\ ~picker.hidden
    /\ \E spot \in (IF mouseGrabber = "picker" THEN Spots ELSE Spots \ {Out}) :
          Becomes(handleMouseMove(Cur, spot))
    /\ Grab(mouseGrabber)

RefreshRecent ==
    /\ ~aborted
    /\ \E recent \in RecentChoices, catalog \in Catalogs :
          Becomes(refreshRecent(Cur, recent, catalog))
    /\ Grab(mouseGrabber)

StickersUpdated ==
    /\ ~aborted
    /\ \E catalog \in Catalogs :
          Becomes(stickersUpdated(Cur, catalog))
    /\ Grab(mouseGrabber)

\* A paint of the whole list or of a band of it.
PaintRects ==
    {WholeRect(Cur)}
        \cup {[top |-> top, height |-> ViewHeight] : top \in 0..(desiredHeight(Cur) - 1)}

Paint ==
    /\ ~aborted
    /\ \E r \in PaintRects, recent \in RecentChoices :
          Becomes(paintEvent(Cur, r, recent))
    /\ Grab(mouseGrabber)

Next ==
    \/ MousePress
    \/ MouseRelease
    \/ MouseMove
    \/ Leave
    \/ EnterFromChild
    \/ ShowPickerTimeout
    \/ AnimationEnd
    \/ ProcessHideFinished
    \/ PickerMousePress
    \/ PickerMouseRelease
    \/ PickerMouseMove

Spec == Init /\ [][Next]_vars

\* ---------------------------------------------- pixel-exact pointer tracking
\* The same handlers driven with every pixel of the list's rect, at every
\* width, the pointer never over the overlay.
Pixels == { <<x, y>> : x \in 0..(_width - 1), y \in 0..(desiredHeight(Cur) - 1) }

HoverInit ==
    /\ mouseGrabber = "none"
    /\ \E recent \in RecentChoices, catalog \in Catalogs, width \in 1..MaxWidth,
          stored \in -1..VariantsCount :
          Starts(Shown(recent, catalog, width, stored, TRUE))

HoverPress ==
    /\ ~aborted
    /\ mouseGrabber = "none"
    /\ \E p \in Pixels : Becomes(mousePressEvent(Cur, PointerAt(p, Out), "left"))
    /\ Grab("list")

HoverRelease ==
    /\ ~aborted
    /\ mouseGrabber = "list"
    /\ \E p \in Pixels : Becomes(mouseReleaseEvent(Cur, PointerAt(p, Out)))
    /\ Grab("none")

HoverMove ==
    /\ ~aborted
    /\ \E p \in Pixels : Becomes(mouseMoveEvent(Cur, PointerAt(p, Out)))
    /\ Grab(mouseGrabber)

HoverNext ==
    \/ HoverPress
    \/ HoverRelease
    \/ HoverMove
    \/ Leave

HoverSpec == HoverInit /\ [][HoverNext]_vars

\* ------------------------------------------------------ the viewport
\* The panel with several custom sets in a scroll area: the scroll area
\* reports the visible range, the list is painted in bands, the catalog
\* changes and the panel is resized.
ViewInit ==
    /\ mouseGrabber = "none"
    /\ \E catalog \in ViewCatalogs, width \in 1..MaxWidth :
          Starts(Shown(<<>>, catalog, width, -1, FALSE))

\* The visible ranges [top, bottom) the scroll area may report: a viewport
\* of one or two band heights at any scroll position.
VisibleRanges ==
    { <<visibleTop, visibleTop + height>> :
        visibleTop \in 0..(desiredHeight(Cur) - 1),
        height \in {ViewHeight, 2 * ViewHeight} }

VisibleTopBottomUpdated ==
    /\ ~aborted
    /\ \E range \in VisibleRanges :
          Becomes(visibleTopBottomUpdated(Cur, range[1], range[2]))
    /\ Grab(mouseGrabber)

CatalogUpdated ==
    /\ ~aborted
    /\ \E catalog \in ViewCatalogs :
          Becomes(stickersUpdated(Cur, catalog))
    /\ Grab(mouseGrabber)

Resized ==
    /\ ~aborted
    /\ \E width \in 1..MaxWidth :
          Becomes(resizeToWidth(Cur, width))
    /\ Grab(mouseGrabber)

ViewNext ==
    \/ VisibleTopBottomUpdated
    \/ Paint
    \/ CatalogUpdated
    \/ Resized

ViewSpec == ViewInit /\ [][ViewNext]_vars

\* ------------------------------------------- the catalog under the pointer
\* The pointer tracked pixel by pixel while the catalog changes and the
\* panel is resized.
StaleCatalogs ==
    { <<SetOf("a", <<"d1">>)>>, <<SetOf("a", <<"d1">>), SetOf("b", <<"d2">>)>> }

StaleInit ==
    /\ mouseGrabber = "none"
    /\ \E catalog \in StaleCatalogs :
          Starts(Shown(<<EmojiOf(PlainFamily, 0)>>, catalog, MaxWidth, -1, TRUE))

\* stickers().updated() with a set added to or removed from the catalog.
StaleCatalogUpdated ==
    /\ ~aborted
    /\ \E catalog \in StaleCatalogs :
          Becomes(stickersUpdated(Cur, catalog))
    /\ Grab(mouseGrabber)

StaleNext ==
    \/ HoverPress
    \/ HoverRelease
    \/ HoverMove
    \/ Leave
    \/ StaleCatalogUpdated
    \/ Resized

StaleSpec == StaleInit /\ [][StaleNext]_vars

\* ------------------------------------------------- repaint requests
\* The panel shown with custom sets whose instances ask for repaints, the
\* posted scheduling call, the repaint timer and the clock.
RepaintInit ==
    /\ mouseGrabber = "none"
    /\ \E catalog \in SharedCatalogs :
          Starts(Shown(<<>>, catalog, MaxWidth, -1, TRUE))

Requests == [duration : 1..DurationClasses, when : 1..MaxTime]

\* An instance asks to be repainted.
RequestRepaint ==
    /\ ~aborted
    /\ \E instance \in DOMAIN _instances, request \in Requests :
          Becomes(repaintDelayed(Cur, instance, request))
    /\ Grab(mouseGrabber)

\* The call scheduleRepaintTimer() posted runs.
PostponedCall ==
    /\ ~aborted
    /\ postedCalls > 0
    /\ Becomes(postponedCall(Cur))
    /\ Grab(mouseGrabber)

\* _repaintTimer fires, at the time it was armed for or later.
RepaintTimeout ==
    /\ ~aborted
    /\ _repaintTimer # 0
    /\ now >= _repaintTimer
    /\ Becomes(repaintTimeout(Cur))
    /\ Grab(mouseGrabber)

\* Time passes.
Tick ==
    /\ ~aborted
    /\ now < MaxTime
    /\ Becomes([Cur EXCEPT !.now = @ + 1])
    /\ Grab(mouseGrabber)

RepaintNext ==
    \/ RequestRepaint
    \/ PostponedCall
    \/ RepaintTimeout
    \/ Tick

RepaintSpec == RepaintInit /\ [][RepaintNext]_vars

\* The event loop runs every posted call, a timer whose time has come
\* fires, and time goes on (up to MaxTime): weak fairness of PostponedCall,
\* RepaintTimeout and Tick, each written out with the state predicate that
\* says when the action is enabled, which is cheaper to evaluate.
PostedCallRuns == postedCalls > 0 /\ postedCalls' < postedCalls /\ PostponedCall

PostedCallPasses ==
    postedCalls > 0 /\ _repaints' # _repaints /\ PostponedCall

TimerRuns == _repaintTimer # 0 /\ _repaintTimer' = 0 /\ RepaintTimeout

TimePasses == now' = now + 1 /\ Tick

RepaintFairSpec ==
    /\ RepaintSpec
    /\ \/ []<>(postedCalls = 0 \/ aborted)
       \/ []<><<PostedCallRuns \/ PostedCallPasses>>_vars
    /\ \/ []<>(_repaintTimer = 0 \/ now < _repaintTimer \/ aborted)
       \/ []<><<TimerRuns>>_vars
    /\ \/ []<>(now >= MaxTime \/ aborted)
       \/ []<><<TimePasses>>_vars

\* ------------------------------------------- requests that keep coming
\* One instance asks once for a repaint; afterwards other instances keep
\* asking, in the same duration class, for ever later times, each request
\* arriving before the time the bucket waits for has come.  Times are kept
\* relative to now here, so that time can pass for ever: now stays, and a
\* unit of time passing lowers every stored time by one.  The code compares
\* stored times with now and with each other and takes their distance
\* from now, nothing else.
Victim == "d1"

StarveInit ==
    /\ mouseGrabber = "none"
    /\ \E catalog \in { shown \in ViewCatalogs :
                            \E others \in SUBSET {"d2", "d3"} :
                               /\ others # {}
                               /\ UNION { DocumentsOf(shown[n]) : n \in 1..Len(shown) }
                                     = {Victim} \cup others } :
          Starts(Shown(<<>>, catalog, MaxWidth, -1, TRUE))

\* The victim's one request.
VictimRequest ==
    /\ ~aborted
    /\ _repaints = NoRepaints
    /\ \E request \in Requests :
          /\ request.when > now
          /\ Becomes(repaintDelayed(Cur, Victim, request))
    /\ Grab(mouseGrabber)

\* A later request of the class the victim waits in, for a later time.
LaterRequest ==
    /\ ~aborted
    /\ \E instance \in DOMAIN _instances \ {Victim}, request \in Requests :
          /\ request.duration \in DOMAIN _repaints
          /\ request.when > _repaints[request.duration].when
          /\ Becomes(repaintDelayed(Cur, instance, request))
    /\ Grab(mouseGrabber)

\* A stored time one unit of time later; 0 is "not set".
Sooner(time) == IF time = 0 THEN 0 ELSE time - 1

\* A unit of time passes with nothing due and nothing that comes due: the
\* timer fires on time, and the later request has come before the bucket's
\* time.
TimeShifts ==
    /\ ~aborted
    /\ _repaintTimer # now
    /\ _repaints # NoRepaints
    /\ \A duration \in DOMAIN _repaints : _repaints[duration].when > now + 1
    /\ Becomes([Cur EXCEPT
                   !.repaints = [duration \in DOMAIN @ |->
                                    [@[duration] EXCEPT !.when = Sooner(@)]],
                   !.repaintNext = Sooner(@),
                   !.repaintTimer = Sooner(@)])
    /\ Grab(mouseGrabber)

StarveNext ==
    \/ VictimRequest
    \/ LaterRequest
    \/ PostponedCall
    \/ RepaintTimeout
    \/ TimeShifts

StarveSpec ==
    /\ StarveInit
    /\ [][StarveNext]_vars
    /\ WF_vars(VictimRequest)
    /\ WF_vars(LaterRequest)
    /\ WF_vars(PostponedCall)
    /\ WF_vars(RepaintTimeout)
    /\ WF_vars(TimeShifts)

\* Requests of one duration class with ever later deadlines, all made
\* before the clock has moved, so before the first deadline elapses, and
\* with no other class pending.
AscendingRequest ==
    /\ ~aborted
    /\ now = 1
    /\ \E instance \in DOMAIN _instances, request \in Requests :
          /\ request.when > now
          /\ DOMAIN _repaints \subseteq {request.duration}
          /\ request.duration \in DOMAIN _repaints
                => request.when > _repaints[request.duration].when
          /\ Becomes(repaintDelayed(Cur, instance, request))
    /\ Grab(mouseGrabber)

AscendingNext ==
    \/ AscendingRequest
    \/ PostponedCall
    \/ RepaintTimeout
    \/ Tick

AscendingSpec == RepaintInit /\ [][AscendingNext]_vars

\* ------------------------------------------------------- reading a state
Contains(r, p) ==
    /\ p[1] >= r.x
    /\ p[1] < r.x + r.w
    /\ p[2] >= r.y
    /\ p[2] < r.y + r.h

\* The items of list s whose cell (emojiRect) holds point p.
ItemsUnder(s, p) ==
    UNION { { i \in 0..(CountBefore(s, sectionsCount(s)) - 1) :
                  \E pos \in {IndexToPosition(s, i)} :
                     \E rect \in {CellRect(s, infos[pos[1] + 1], pos[2])} :
                        Contains(rect, p) } :
            infos \in {enumerateSections(s)} }

\* The item whose cell holds point p; -1 when no cell does.
ItemUnder(p) ==
    CHOOSE i \in UNION { IF under = {} THEN {-1} ELSE under :
                             under \in { ItemsUnder(s, p) : s \in {Cur} } } : TRUE

\* Index i is a loaded built-in item.
IsBuiltin(i) == i >= 0 /\ IsEmojiItem(Cur, IndexToPosition(Cur, i))

BuiltinAt(i) == EmojiAt(Cur, IndexToPosition(Cur, i))

IsPlain(i) == IsBuiltin(i) /\ ~hasVariants(BuiltinAt(i))

IsMulti(i) == IsBuiltin(i) /\ hasVariants(BuiltinAt(i))

IsCustom(i) == i >= 0 /\ IsCustomItem(Cur, IndexToPosition(Cur, i))

\* The steps of the list's pointer handlers; the event's point is the one
\* the handler tracks.
LeftPress ==
    /\ mouseGrabber = "none"
    /\ mouseGrabber' = "list"
    /\ _lastMousePos' \in Points
    /\ Becomes(mousePressEvent(Cur, PointerAt(_lastMousePos', Out), "left"))

Release(spot) ==
    /\ mouseGrabber = "list"
    /\ mouseGrabber' = "none"
    /\ spot \in SpotsNow
    /\ _lastMousePos' \in Points
    /\ Becomes(mouseReleaseEvent(Cur, PointerAt(_lastMousePos', spot)))

\* The item the step's pointer event is over.
Pointed == ItemUnder(_lastMousePos')

\* No overlay is shown and none is pending.
Idle == picker.hidden /\ _pickerSel = -1

\* What a commit of built-in emoji e fires.
ChosenOnce(e) == <<Event("incrementRecentEmoji", e, ""), Event("chosen", e, "")>>

StoredFor(i) == emojiVariants[nonColoredId(BuiltinAt(i))]

\* The step in which _showPickerTimer fires.
TimerFires == _showPickerTimer /\ Becomes(showPicker([Cur EXCEPT !.timer = FALSE]))

PickerRelease(spot) ==
    /\ mouseGrabber = "picker"
    /\ mouseGrabber' = "none"
    /\ Becomes(handleMouseRelease(Cur, spot))

\* Variant v of the family the overlay shows.
ShownVariant(v) == EmojiOf(nonColoredId(picker.variants[1]), v)

\* What a commit of variant e through the overlay fires.
VariantChosenOnce(e) == <<Event("saveEmojiVariant", e, "")>> \o ChosenOnce(e)

C4_ReleaseClearsPressAndTimer ==
    [][ \A spot \in Spots :
          Release(spot) => (_pressedSel' = -1 /\ ~_showPickerTimer') ]_vars

\* ------------------------------------------------------------------ C5
\* No chosen event is among the events the step fires.
NoChosenFired == \A k \in 1..Len(fired') : fired'[k].ev # "chosen"

\* The picker target is an item with a stored variant.
TargetStored == IsMulti(_pickerSel) /\ StoredFor(_pickerSel) >= 0

\* C5 as stated: with the overlay shown and a picker target set, a release
\* outside the overlay fires no chosen event and stores no variant; it
\* closes the overlay and clears the target when the target has a stored
\* variant, and leaves both as they are when it has none.
C5_AsStated ==
    [][ (~picker.hidden /\ _pickerSel >= 0 /\ Release(Out))
          => /\ NoChosenFired
             /\ emojiVariants' = emojiVariants
             /\ IF TargetStored
                THEN (picker'.hidden \/ picker'.hiding) /\ _pickerSel' = -1
                ELSE /\ ~picker'.hidden
                     /\ picker'.hiding = picker.hiding
                     /\ _pickerSel' = _pickerSel ]_vars

\* C5 amended: the above holds of a release that finds the timer not armed
\* (it fires nothing at all and the overlay closes by its animation); a
\* release that finds the timer armed, the press having come while the
\* overlay was still closing, cancels the timer, hides the overlay at once,
\* clears the target, stores no variant, and commits the pressed item when
\* it lands on it.
C5_ReleaseOutsideOverlay ==
    [][ (~picker.hidden /\ _pickerSel >= 0 /\ Release(Out))
          => /\ emojiVariants' = emojiVariants
             /\ IF _showPickerTimer
                THEN /\ picker'.hidden
                     /\ _pickerSel' = -1
                     /\ ~_showPickerTimer'
                     /\ fired' = IF Pointed = _pressedSel /\ IsBuiltin(_pressedSel)
                                 THEN ChosenOnce(BuiltinAt(_pressedSel))
                                 ELSE <<>>
                ELSE /\ fired' = <<>>
                     /\ IF TargetStored
                        THEN ~picker'.hidden /\ picker'.hiding /\ _pickerSel' = -1
                        ELSE /\ ~picker'.hidden
                             /\ picker'.hiding = picker.hiding
                             /\ _pickerSel' = _pickerSel ]_vars

\* A release outside the overlay has just started closing it: a variant is
\* stored, nothing was fired, the target is cleared.
C5_Witness ==
    /\ mouseGrabber = "none"
    /\ ~picker.hidden
    /\ picker.hiding
    /\ _pickerSel = -1
    /\ _pressedSel = -1
    /\ emojiVariants[MultiFamily] >= 0
    /\ fired = <<>>
    /\ scrollDisabled
    /\ _lastMousePos \in Points
    /\ ~picker.ignoreShow

\* ------------------------------------------------------------------ C7
\* The step of leaveEventHook() / leaveToChildEvent().
LeaveStep == Becomes(clearSelection(Cur))

\* C7: a leave that finds the timer armed cancels it.
C7_LeaveCancelsTimer ==
    [][ (_showPickerTimer /\ LeaveStep) => ~_showPickerTimer' ]_vars

\* ------------------------------------------------------------------ C8
\* C8: a leave clears selected and pressed and parks the tracked pointer at
\* the sentinel position; the picker target, the overlay's visibility and
\* the overlay's own selection are as before.
C8_LeaveClearsSelection ==
    [][ LeaveStep
          => /\ _selected' = -1
             /\ _pressedSel' = -1
             /\ _lastMousePos' = <<SentinelCoord, SentinelCoord>>
             /\ _pickerSel' = _pickerSel
             /\ picker'.hidden = picker.hidden
             /\ picker'.hiding = picker.hiding
             /\ picker'.selected = picker.selected ]_vars

\* The pointer has left the list while the overlay was open with one of its
\* variants selected.
C8_Witness ==
    /\ _lastMousePos = <<SentinelCoord, SentinelCoord>>
    /\ _selected = -1
    /\ _pressedSel = -1
    /\ _pickerSel >= 0
    /\ ~picker.hidden
    /\ picker.selected >= 0

\* ------------------------------------------------------------------ C9
\* The document of custom item i.
DocumentAt(i) == CustomAt(Cur, IndexToPosition(Cur, i))

HoverMoveStep ==
    /\ _lastMousePos' \in Pixels
    /\ Becomes(mouseMoveEvent(Cur, PointerAt(_lastMousePos', Out)))

\* C10: with nothing pressed and no picker target, a move sets selected to
\* the item whose cell holds the pointer, -1 when no item's cell does (a
\* header or padding band, beyond the columns, a cell past the section's
\* count); with an item pressed or a picker target set it leaves selected
\* as it is.
C10_MoveSelects ==
    [][ HoverMoveStep
          => _selected' = IF _pressedSel = -1 /\ _pickerSel = -1
                          THEN Pointed
                          ELSE _selected ]_vars

\* The pointer is inside the columns of a section's rows, on a cell past
\* the section's count, and nothing is selected.
C10_Witness ==
    /\ _pressedSel = -1
    /\ _pickerSel = -1
    /\ _selected = -1
    /\ _lastMousePos \in Pixels
    /\ \E k \in 1..sectionsCount(Cur) :
          /\ _lastMousePos[2] >= enumerateSections(Cur)[k].rowsTop
          /\ _lastMousePos[2] < enumerateSections(Cur)[k].rowsBottom
          /\ _lastMousePos[1] >= rowsLeft(_width)
          /\ _lastMousePos[1] < rowsLeft(_width) + columnCount(_width) * singleWidth(_width)

\* ------------------------------------------------------------------ C6
\* A step that ends the opacity animation.
AnimationEnds == picker.animating /\ ~picker'.animating /\ AnimationEnd

\* The opacity animation, once started, ends: weak fairness of AnimationEnd,
\* written out. AnimationEnd is enabled exactly while the animation runs
\* (its guards are ~aborted and picker.animating, and its step always clears
\* picker.animating), so WF_vars(AnimationEnd) reads: the animation is
\* infinitely often not running, or infinitely often ends.
FairSpec ==
    Spec /\ ([]<>(~picker.animating \/ aborted) \/ []<><<AnimationEnds>>_vars)

\* The overlay is being closed: its hide animation runs.
Closing == picker.hiding /\ picker.animating

\* The overlay is shown and not being closed.
Reopened == ~picker.hidden /\ ~picker.hiding

\* The overlay is gone and the list tracks the pointer again: selected is
\* the item under the tracked pointer unless an item is held pressed.
Settled ==
    /\ picker.hidden
    /\ _pickerSel = -1
    /\ ~scrollDisabled
    /\ _pressedSel = -1 => _selected = ItemUnder(_lastMousePos)

\* C6: once the overlay is being closed, by whatever route, the list
\* reaches a state with the overlay hidden, no picker target, scrolling
\* enabled and selected recomputed from the tracked pointer, unless the
\* overlay is shown again first; a step that hides the shown overlay at
\* once, with no animation left, reaches that state itself; and a hidden
\* overlay with scrolling disabled does not last.
C6_CloseSettles ==
    /\ Closing ~> (Settled \/ Reopened)
    /\ [][(~picker.hidden /\ picker'.hidden /\ ~picker'.animating) => Settled']_vars
    /\ (picker.hidden /\ scrollDisabled) ~> (~scrollDisabled \/ ~picker.hidden)

\* The hide animation has ended with the pointer over an item: the overlay
\* is hidden, scrolling is enabled again and the item is selected.
C6_Witness ==
    /\ picker.hidden
    /\ picker.hiding
    /\ ~picker.animating
    /\ picker.variants # <<>>
    /\ _pickerSel = -1
    /\ ~scrollDisabled
    /\ _pressedSel = -1
    /\ _selected >= 0
    /\ _selected = ItemUnder(_lastMousePos)

\* ----------------------------------------------------------------- C11
\* The step of an instance's request for a duration class and a time.
RequestStep(instance, duration, when) ==
    /\ instance \in DOMAIN _instances
    /\ Becomes(repaintDelayed(Cur, instance, [duration |-> duration, when |-> when]))

Pending(duration) == duration \in DOMAIN _repaints

\* C11: a request for a class with no bucket creates the bucket with the
\* requested deadline; a request for a class with a bucket makes the
\* deadline the greater of the two; and while a bucket stays, its deadline
\* changes by nothing but such a request, so it is the maximum of the
\* deadlines requested since the bucket was created and never decreases.
C11_DeadlineIsMax ==
    [][\A duration \in 1..DurationClasses :
        /\ \A instance \in DOMAIN _instances, when \in 1..MaxTime :
              RequestStep(instance, duration, when)
                  => /\ Pending(duration)'
                     /\ _repaints'[duration].when
                          = IF Pending(duration)
                            THEN Max(_repaints[duration].when, when)
                            ELSE when
        /\ (Pending(duration) /\ Pending(duration)')
              => /\ _repaints'[duration].when >= _repaints[duration].when
                 /\ _repaints'[duration].when # _repaints[duration].when
                      => \E instance \in DOMAIN _instances :
                            RequestStep(instance, duration, _repaints'[duration].when)]_vars

\* Two instances' requests share a bucket whose deadline is past the
\* earliest time a request can name.
C11_Witness ==
    \E duration \in DOMAIN _repaints :
        /\ Cardinality(_repaints[duration].from) >= 2
        /\ _repaints[duration].when >= 2
        /\ _repaints[duration].when < MaxTime

\* ----------------------------------------------------------------- C12
\* The step of the repaint timer firing.
RepaintTimerFires ==
    /\ _repaintTimer # 0
    /\ now >= _repaintTimer
    /\ Becomes(repaintTimeout(Cur))

\* The step of the posted scheduling call that finds the least deadline
\* elapsed and runs invokeRepaints() itself.
PostedCallFires ==
    /\ postedCalls > 0
    /\ NextWhen(_repaints) # 0
    /\ _repaintNext = 0 \/ _repaintNext > NextWhen(_repaints)
    /\ now >= NextWhen(_repaints)
    /\ Becomes(postponedCall(Cur))

FiringPass == RepaintTimerFires \/ PostedCallFires

\* C12: with the requests of one class made in ascending order of
\* deadline, before the first deadline, the timer does not fire and no
\* firing pass runs while the clock is before the bucket's deadline, the
\* latest one requested.
C12_SingleWakeUp ==
    [][(\E duration \in DOMAIN _repaints :
           /\ DOMAIN _repaints = {duration}
           /\ now < _repaints[duration].when)
        => ~FiringPass]_vars

\* ----------------------------------------------------------------- C13
\* C13: with no scheduling call left to run and the repaint timer armed,
\* the time the timer is armed for is the least deadline of the pending
\* buckets.
C13_TimerTargetsMinimum ==
    (~_repaintTimerScheduled /\ _repaintTimer # 0)
        => _repaintTimer = NextWhen(_repaints)

\* ----------------------------------------------------------------- C14
\* C14: when requests stop arriving, every pending bucket is in the end
\* removed, and a bucket is removed by nothing but a firing pass that runs
\* at or after the bucket's deadline.
C14_NoMissedWakeUp ==
    /\ (<>[][~RequestRepaint]_vars)
          => \A duration \in 1..DurationClasses :
                 Pending(duration) ~> ~Pending(duration)
    /\ [][\A duration \in DOMAIN _repaints :
            ~Pending(duration)'
                => FiringPass /\ now >= _repaints[duration].when]_vars

\* The timer is armed for the deadline of one class and a request of
\* another class with an earlier deadline, still ahead, has arrived since:
\* its scheduling call is posted.
C14_Witness ==
    /\ _repaintTimer # 0
    /\ _repaintTimerScheduled
    /\ \E earlier, later \in DOMAIN _repaints :
          /\ _repaints[later].when = _repaintTimer
          /\ _repaints[earlier].when < _repaintTimer
          /\ now < _repaints[earlier].when

\* ----------------------------------------------------------------- C15
\* The step fires update() for a custom section that holds the document.
Invalidated(document) ==
    \E k \in 1..Len(fired') :
        /\ fired'[k].ev = "update"
        /\ fired'[k].section >= kEmojiSectionCount
        /\ document \in DocumentsOf(
               [docs |-> _custom[fired'[k].section - kEmojiSectionCount + 1].list])

\* C15: a firing pass removes every bucket whose deadline, the latest one
\* requested for it, has come, and in that one pass invalidates every
\* content id whose request the bucket holds; it leaves the other buckets
\* as they are.  A bucket goes by nothing but such a pass, and a bucket
\* created afterwards holds the creating request alone, so no request is
\* serviced by two passes.
C15_ServicedTogether ==
    [][\A duration \in 1..DurationClasses :
        /\ (FiringPass /\ Pending(duration))
              => IF _repaints[duration].when <= now
                 THEN /\ ~Pending(duration)'
                      /\ \A instance \in _repaints[duration].from :
                            Invalidated(instance)
                 ELSE /\ Pending(duration)'
                      /\ _repaints'[duration] = _repaints[duration]
        /\ (Pending(duration) /\ ~Pending(duration)')
              => FiringPass /\ _repaints[duration].when <= now
        /\ (~Pending(duration) /\ Pending(duration)')
              => \E instance \in DOMAIN _instances, when \in 1..MaxTime :
                    /\ RequestStep(instance, duration, when)
                    /\ _repaints'[duration].from = {instance}
                    /\ _repaints'[duration].when = when]_vars

\* A firing pass has just invalidated the sections of two sets whose
\* instances had requests pending and has left no bucket, after the first
\* deadline the clock can reach.
C15_Witness ==
    /\ Len(fired) >= 2
    /\ \A k \in 1..Len(fired) : fired[k].ev = "update"
    /\ _repaints = NoRepaints
    /\ now >= 3

\* ----------------------------------------------------------------- C16
\* The instances whose requests the buckets due now hold.
Serviced == UNION { _repaints[duration].from : duration \in Due(Cur) }

\* The sections the step fires update() for.
UpdatedSections ==
    { fired'[k].section : k \in { j \in 1..Len(fired') : fired'[j].ev = "update" } }

\* The custom sections with an item whose instance is one of a set.
SectionsShowing(instances) ==
    { kEmojiSectionCount + n - 1 : n \in
        { m \in 1..Len(_custom) :
            DocumentsOf([docs |-> _custom[m].list]) \cap instances # {} } }

\* C16: a firing pass invalidates exactly the custom sections that hold an
\* item whose instance issued one of the serviced requests, and no
\* built-in section.
C16_InvalidatedSections ==
    [][FiringPass => UpdatedSections = SectionsShowing(Serviced)]_vars

\* ----------------------------------------------------------------- C17
\* The state a visibility update with the range leaves, from the state
\* now.
Updated(range) == visibleTopBottomUpdated(Cur, range[1], range[2])

\* The custom sets, by position in _custom, whose content bounds do or do
\* not meet the range.
SetsInView(range) ==
    { n \in 1..Len(_custom) :
        \E info \in { sectionInfo(Cur, kEmojiSectionCount + n - 1) } :
            info.rowsBottom > range[1] /\ info.rowsTop < range[2] }

SetsOutOfView(range) == (1..Len(_custom)) \ SetsInView(range)

\* The unload() calls among the calls made, for an item of a section.
Unloads(calls, section, index) ==
    { k \in 1..Len(calls) :
        /\ calls[k].ev = "unload"
        /\ calls[k].section = section
        /\ calls[k].index = index }

\* C17: after a visibility update every custom section whose content
\* bounds do not meet the range is not painted, every item of such a
\* section that was painted has been unloaded exactly once by the update,
\* and no item of a built-in section is unloaded.
C17_OutOfViewUnloaded ==
    \A range \in VisibleRanges :
        \E after \in { Updated(range) } :
            /\ \A n \in SetsOutOfView(range) :
                  /\ ~after.custom[n].painted
                  /\ _custom[n].painted
                        => \A index \in 0..(Len(_custom[n].list) - 1) :
                              Cardinality(Unloads(after.fired,
                                                  kEmojiSectionCount + n - 1, index)) = 1
            /\ \A k \in 1..Len(after.fired) :
                  after.fired[k].ev = "unload"
                      => after.fired[k].section >= kEmojiSectionCount

\* A visibility update has just unloaded a painted section above the
\* range while the section in the range stays painted.
C17_Witness ==
    /\ Len(_custom) = 2
    /\ ~_custom[1].painted
    /\ _custom[2].painted
    /\ \E k \in 1..Len(fired) :
          fired[k].ev = "unload" /\ fired[k].section = kEmojiSectionCount

\* ----------------------------------------------------------------- C18
\* C18: a visibility update changes neither the painted flag of a custom
\* section whose bounds meet the range nor the decoded state of an
\* instance that an item of such a section refers to.
C18_InViewUntouched ==
    \A range \in VisibleRanges :
        \E after \in { Updated(range) } :
            \A n \in SetsInView(range) :
                /\ after.custom[n].painted = _custom[n].painted
                /\ \A document \in DocumentsOf([docs |-> _custom[n].list]) :
                      after.instances[document] = _instances[document]

\* ----------------------------------------------------------------- C19
\* The state s with the record of the calls made cleared.
Quiet(s) == [s EXCEPT !.fired = <<>>]

\* C19: a visibility update made right after a visibility update with the
\* same range, nothing painted and no catalog refresh between the two,
\* unloads nothing and changes no painted flag (nor anything else).
C19_UpdateIdempotent ==
    \A range \in VisibleRanges :
        \E after \in { Quiet(Updated(range)) } :
            visibleTopBottomUpdated(after, range[1], range[2]) = after

\* A visibility update has just unloaded every item of a painted section
\* of two items, the case in which a second update has to do nothing.
C19_Witness ==
    \E n \in 1..Len(_custom) :
        /\ Len(_custom[n].list) = 2
        /\ ~_custom[n].painted
        /\ \A index \in 0..1 :
              Unloads(fired, kEmojiSectionCount + n - 1, index) # {}

\* ----------------------------------------------------------------- C20
\* C20: the geometry enumerateSections() gives, for the column count and
\* the item counts of the state: one entry per section in index order, the
\* built-in sections with their counts first and the custom sets with
\* theirs after; the row count is the item count over the column count,
\* rounded up; the first top is 0 and every later top is the section
\* before's content bottom; the content bottom is the content top plus
\* rows times the item height; so the extents are in index order and do
\* not overlap.
C20_SectionGeometry ==
    \E infos \in { enumerateSections(Cur) }, columns \in { columnCount(_width) } :
        /\ columns >= 1
        /\ Len(infos) = kEmojiSectionCount + Len(_custom)
        /\ \A k \in 1..Len(infos) :
              /\ infos[k].section = k - 1
              /\ infos[k].count
                    = IF k <= kEmojiSectionCount
                      THEN _counts[k - 1]
                      ELSE Len(_custom[k - kEmojiSectionCount].list)
              /\ infos[k].rowsCount * columns >= infos[k].count
              /\ (infos[k].rowsCount - 1) * columns < infos[k].count
              /\ infos[k].top = IF k = 1 THEN 0 ELSE infos[k - 1].rowsBottom
              /\ infos[k].rowsTop >= infos[k].top
              /\ infos[k].rowsBottom
                    = infos[k].rowsTop + infos[k].rowsCount * singleHeight(_width)
        /\ \A j, k \in 1..Len(infos) :
              j < k => /\ infos[j].top <= infos[j].rowsBottom
                       /\ infos[j].rowsBottom <= infos[k].top

\* Two columns and a custom set of three items, whose last row is not
\* full, after another section with rows.
C20_Witness ==
    /\ columnCount(_width) = 2
    /\ \E n \in 1..Len(_custom) :
          /\ Len(_custom[n].list) = 3
          /\ sectionInfo(Cur, kEmojiSectionCount + n - 1).rowsCount = 2
          /\ sectionInfo(Cur, kEmojiSectionCount + n - 1).top > 0

\* ----------------------------------------------------------------- C21
\* The pixel offsets asked for.
Offsets == (-1)..(desiredHeight(Cur) + FarBelow)

\* C21: for every pixel offset y, sectionInfoByOffset(y) is the info of
\* the lowest section whose content bottom is greater than y when there is
\* one, and of the last section otherwise; it is what sectionInfo() gives
\* for that index, and an offset within a section's extent, from its top to
\* its content bottom, gives that section.
C21_SectionByOffset ==
    \E infos \in { enumerateSections(Cur) } :
        \A y \in Offsets :
            \E found \in { sectionInfoByOffset(Cur, y) },
               below \in { { k \in 1..Len(infos) : infos[k].rowsBottom > y } } :
                /\ found = sectionInfo(Cur, found.section)
                /\ below # {}
                      => /\ found.section + 1 \in below
                         /\ \A k \in below : found.section + 1 <= k
                /\ below = {} => found.section = Len(infos) - 1
                /\ \A k \in 1..Len(infos) :
                      (infos[k].top <= y /\ y < infos[k].rowsBottom)
                          => found.section = k - 1

\* Two custom sets: an offset in the rows of the first resolves to it, and
\* the offset farthest below the list resolves to the second, the last.
C21_Witness ==
    /\ Len(_custom) = 2
    /\ sectionInfoByOffset(Cur, sectionInfo(Cur, kEmojiSectionCount).rowsTop).section
          = kEmojiSectionCount
    /\ sectionInfo(Cur, kEmojiSectionCount + 1).rowsBottom
          < desiredHeight(Cur) + FarBelow
    /\ sectionInfoByOffset(Cur, desiredHeight(Cur) + FarBelow).section
          = kEmojiSectionCount + 1

\* ----------------------------------------------------------------- C22
\* The number of items of the catalog as it is now.
ItemsCount == CountBefore(Cur, sectionsCount(Cur))

\* C22: over the sections and counts of the state, encoding a section and
\* an offset below the section's count to a linear index and decoding the
\* index gives the section and offset back, the index is in range, and
\* decoding an index in range and encoding the result gives the index
\* back, with the offset below the count of the section decoded.
C22_IndexBijection ==
    /\ \A section \in 0..(sectionsCount(Cur) - 1) :
          \A offset \in 0..(SectionItems(Cur, section) - 1) :
              \E index \in { PositionToIndex(Cur, section, offset) } :
                  /\ index \in 0..(ItemsCount - 1)
                  /\ IndexToPosition(Cur, index) = <<section, offset>>
    /\ \A index \in 0..(ItemsCount - 1) :
          \E pos \in { IndexToPosition(Cur, index) } :
              /\ pos[1] \in 0..(sectionsCount(Cur) - 1)
              /\ pos[2] \in 0..(SectionItems(Cur, pos[1]) - 1)
              /\ PositionToIndex(Cur, pos[1], pos[2]) = index

\* The recent section has been loaded with an item, two custom sets
\* follow the built-in sections, and the last index decodes to the last
\* item of the last set.
C22_Witness ==
    /\ _counts[0] = 1
    /\ Len(_custom) = 2
    /\ IndexToPosition(Cur, ItemsCount - 1)
          = <<kEmojiSectionCount + 1, Len(_custom[2].list) - 1>>

\* ----------------------------------------------------------------- C23
\* The sets of a catalog that are in sets() with stickers, in order.
Listed(catalog) == SelectSeq(catalog, LAMBDA set : set.docs # <<>>)

\* The sets of the custom list now with the id and documents of a set.
SameAs(set) ==
    { j \in 1..Len(_custom) : _custom[j].id = set.id /\ _custom[j].list = set.docs }

\* C23: after a catalog refresh the custom sections are the catalog's
\* sets that are not missing or empty, in catalog order; a set whose id
\* and documents are those of a set of the list before is that set as it
\* was, painted flag and instances included; any other set has its
\* documents and is not painted.
C23_RefreshCarriesOver ==
    \A catalog \in ViewCatalogs :
        \E after \in { refreshCustom(Cur, catalog) }, listed \in { Listed(catalog) } :
            /\ Len(after.custom) = Len(listed)
            /\ \A k \in 1..Len(listed) :
                  /\ after.custom[k].id = listed[k].id
                  /\ after.custom[k].list = listed[k].docs
                  /\ IF SameAs(listed[k]) # {}
                     THEN /\ \E j \in SameAs(listed[k]) : after.custom[k] = _custom[j]
                          /\ \A document \in DocumentsOf(listed[k]) :
                                after.instances[document] = _instances[document]
                     ELSE ~after.custom[k].painted

\* After a refresh from the catalog a = <d1>, b = <d2>: the set a has
\* been rebuilt with two documents and is not painted, the set b has been
\* carried over and is painted.
C23_Witness ==
    /\ Len(_custom) = 2
    /\ _custom[1].list = <<"d1", "d2">>
    /\ ~_custom[1].painted
    /\ _custom[2].painted
    /\ "d2" \in DOMAIN _instances
    /\ _instances["d2"].setId = "b"

\* ----------------------------------------------------------------- C24
\* The documents the items of the custom sections show.
Shown_Documents ==
    UNION { DocumentsOf([docs |-> _custom[n].list]) : n \in 1..Len(_custom) }

\* C24: the registry, keyed by content id, has an instance for the
\* document of every item of every custom section; and no step removes an
\* entry or puts another instance in its place: the instance of a content
\* id stays the one made for the set that first listed it.
C24_RegistryKeepsInstances ==
    /\ [](Shown_Documents \subseteq DOMAIN _instances)
    /\ [][\A id \in DOMAIN _instances :
            /\ id \in DOMAIN _instances'
            /\ _instances'[id].setId = _instances[id].setId]_vars

\* After refreshes: the registry still holds the instance of a document no
\* section shows any more, and a section shows a document whose instance
\* was made for another set.
C24_Witness ==
    /\ DOMAIN _instances \ Shown_Documents # {}
    /\ \E n \in 1..Len(_custom) :
          \E document \in DocumentsOf([docs |-> _custom[n].list]) :
              _instances[document].setId # _custom[n].id

\* ----------------------------------------------------------------- C25
\* C25: no handler asks sectionInfo() for a section outside
\* [0, sectionsCount()): no Expects() of it fails.
C25_SectionInfoInBounds == ~aborted

\* ----------------------------------------------------------------- C26
\* The step fires a commit: chosen or customChosen.
CommitFired ==
    \E k \in 1..Len(fired') : fired'[k].ev \in {"chosen", "customChosen"}

\* C26: with the overlay hidden, a release commits an item only if an
\* item is pressed and the release point lies in that item's cell.
C26_CommitOnlyOnPressedCell ==
    [][(picker.hidden /\ Release(Out) /\ CommitFired)
          => (_pressedSel >= 0 /\ Pointed = _pressedSel)]_vars

\* ----------------------------------------------------------------- C27
\* C27: in every state between handlers, when a bucket is pending a
\* scheduling call is posted or the repaint timer is armed for a time no
\* later than the least pending deadline; at most one scheduling call is
\* posted, and one is posted exactly while _repaintTimerScheduled is set.
C27_WakeUpPending ==
    /\ _repaints # NoRepaints
          => \/ postedCalls > 0
             \/ _repaintTimer # 0 /\ _repaintTimer <= NextWhen(_repaints)
    /\ postedCalls <= 1
    /\ _repaintTimerScheduled <=> postedCalls = 1

\* No scheduling call is posted, and the timer alone, armed for the least
\* of the deadlines of two pending buckets, stands for both.
C27_Witness ==
    /\ postedCalls = 0
    /\ Cardinality(DOMAIN _repaints) = 2
    /\ _repaintTimer = NextWhen(_repaints)
    /\ now < _repaintTimer

\* ----------------------------------------------------------------- C28
\* The victim's request is in a bucket that has not been serviced.
VictimWaits ==
    \E duration \in DOMAIN _repaints : Victim \in _repaints[duration].from

\* C28: in every execution in which later requests of the same class keep
\* coming with later times before the bucket's time has come, the victim's
\* request, once made, stays in its bucket for ever: no firing pass
\* services it, while time passes again and again, beyond any deadline,
\* and the timer fires again and again.
C28_Starvation ==
    /\ <>VictimWaits
    /\ [][VictimWaits => VictimWaits']_vars
    /\ []<><<TimeShifts>>_vars
    /\ []<><<RepaintTimerFires>>_vars

\* The timer has just fired for a time the bucket no longer waits for: the
\* victim is still in the bucket, nothing was invalidated, and the
\* scheduling call is posted again.
C28_Witness ==
    /\ VictimWaits
    /\ _repaintTimer = 0
    /\ _repaintNext = 0
    /\ postedCalls = 1
    /\ fired = <<>>
    /\ \E duration \in DOMAIN _repaints :
          Cardinality(_repaints[duration].from) >= 2

====
